---- MODULE Spec2Model ----
(***************************************************************************)
(* Model of the bounded-concurrency Limiter of                             *)
(* extensions/codestory/src/server/applyEdits.ts and of its users.         *)
(*                                                                         *)
(* The limiter's fields are the variables _size, _isDisposed,              *)
(* runningPromises, maxDegreeOfParalellism, outstandingPromises and        *)
(* _onDrained.  Its methods queue/consume/consumed/clear/dispose are       *)
(* operators over a record of those fields, applied by one action per      *)
(* entry point.  JavaScript runs the methods to completion on one thread,  *)
(* so every action is one whole call.  A task's own promise settles in an  *)
(* environment step (Settle); the reactions the limiter registered on it   *)
(* with promise.then run later, from the microtask queue, in the order in  *)
(* which the promises settled (React).                                     *)
(*                                                                         *)
(* Spec is the limiter under arbitrary callers whose factories return a    *)
(* promise.  The other specifications drive the same limiter from a        *)
(* particular caller: factories that throw or call back into the limiter   *)
(* (ReentrantSpec), tasks of equal duration (TimedSpec), streaming         *)
(* applyEdits calls (ApplySpec) and the edit queue of                      *)
(* ModelSelectionEditingService (EditingSpec).                             *)
(***************************************************************************)
EXTENDS Integers, Sequences, FiniteSets, TLC

\* Number of queue() calls explored.
MaxTasks == 5

\* Largest maximum degree of parallelism a limiter is constructed with.
MaxParallelism == 2

\* Number of applyEdits calls that share the limiter, and the largest number
\* of lines in the edited content of one call.
MaxCalls == 2
MaxLines == 2

\* Every queue() call is given the next task number: tasks are numbered in
\* submission order.
Tasks == 1..MaxTasks

\* The applyEdits calls.
Calls == 1..MaxCalls

DisposedError == "Object has been disposed"

VARIABLES
    maxDegreeOfParalellism, \* Limiter.maxDegreeOfParalellism
    _size,                  \* Limiter._size
    _isDisposed,            \* Limiter._isDisposed
    runningPromises,        \* Limiter.runningPromises
    outstandingPromises,    \* Limiter.outstandingPromises: queued {factory, c, e}, by task
    _onDrained,             \* Limiter._onDrained: the emitter, never fired
    promise,                \* promise[t]: the promise returned by task t's factory
    future,                 \* future[t]: the promise queue() returned for task t
    reactions,              \* microtask queue: settled tasks whose then-reactions have not run
    nextTask,               \* number of the next queue() call
    startOrder,             \* the tasks whose factory was invoked, in invocation order
    droppedBy,              \* droppedBy[t]: the call that removed t from the queue unstarted
    thrown,                 \* error thrown by the latest queue()/clear()/dispose() call
    behaviour,              \* behaviour[t]: what task t's factory does when invoked
    clock,                  \* the time, in task durations
    startedAt,              \* startedAt[t]: the time at which task t's factory was invoked
    method,                 \* method[t]: the editing-service method that queued task t
    calls,                  \* calls[c]: the state of applyEdits call c
    owner,                  \* owner[t]: the applyEdits call and line task t edits
    emitted,                \* the response.codeEdit calls made, in order
    document,               \* the model selection file and its text model
    operation,              \* the doEdit... operation the service's queue is running
    _model,                 \* AideProbeViewModel._model: its response, tailing flag and number of changes
    _breakdowns,            \* AideProbeViewModel._breakdowns, by the URI of each item
    handlers,               \* the onDidChange handlers that are at their await, oldest first
    created,                \* created[u]: the model references created for URI u
    fired                   \* the events the view model fired in the latest step, in order

\* The limiter and its tasks.
limiterVars == <<maxDegreeOfParalellism, _size, _isDisposed, runningPromises,
                 outstandingPromises, _onDrained, promise, future, reactions,
                 nextTask, startOrder, droppedBy, thrown, behaviour, startedAt>>

\* The state of ModelSelectionEditingService.
editingVars == <<method>>

\* The state of the applyEdits calls.
applyVars == <<calls, owner, emitted>>

\* The model selection file and the edit operation in progress.
docVars == <<document, operation>>

\* The state of AideProbeViewModel and of its model.
probeVars == <<_model, _breakdowns, handlers, created, fired>>

vars == <<limiterVars, clock, editingVars, applyVars, docVars, probeVars>>

\* States of a promise.
NoPromise == [state |-> "none", val |-> 0]
Pending == [state |-> "pending", val |-> 0]
Fulfilled(v) == [state |-> "fulfilled", val |-> v]
Rejected(err) == [state |-> "rejected", val |-> err]

\* The outcomes of task t's promise: it fulfils with the task's own value or
\* rejects with the task's own error, each named by the task's number, so
\* that no two tasks share a value or an error.
Outcomes(t) == {Fulfilled(t), Rejected(t)}

Settled(p) == p.state \in {"fulfilled", "rejected"}

Range(s) == {s[i] : i \in 1..Len(s)}

\* An applyEdits call that has not been made, and a task that is not a line
\* edit of any call.
NotCalled == [pc |-> "idle", lines |-> 0, line |-> 0, task |-> 0]
NoOwner == [call |-> 0, line |-> 0]

\* What a factory does when consume() invokes it, before it returns its
\* promise: nothing to the limiter ("plain"), or one synchronous call of
\* queue(), clear() or dispose() on the limiter that is invoking it; or it
\* throws instead of returning a promise ("throws").
Reentrant == {"queues", "clears", "disposes"}
Behaviours == {"plain", "throws"} \cup Reentrant

\* The limiter's fields as one record, with what the call in progress has
\* done so far: the futures it created or settled, the task numbers it took,
\* the factories it invoked, the task whose factory threw (0: none) and the
\* error the call itself throws.
Self ==
    [_size |-> _size,
     _isDisposed |-> _isDisposed,
     runningPromises |-> runningPromises,
     outstandingPromises |-> outstandingPromises,
     _onDrained |-> _onDrained,
     future |-> future,
     nextTask |-> nextTask,
     behaviour |-> behaviour,
     invoked |-> <<>>,
     raised |-> 0,
     thrown |-> "none"]

\* The model keys and provider keys the edit operations are called with;
\* providerTypeValues are the keys that are known provider types.
ModelKeys == {"gpt", "claude"}
providerTypeValues == {"openai", "azure"}
ProviderKeys == providerTypeValues \cup {"custom"}

\* The model selection file before it exists, with no entry in it.
NoDocument ==
    [kind |-> "missing",
     valid |-> FALSE,
     hasModels |-> FALSE,
     hasProviders |-> FALSE,
     models |-> [k \in ModelKeys |-> "absent"],
     providers |-> [k \in ProviderKeys |-> "absent"],
     dirty |-> FALSE]

\* No edit operation is running.
NoOperation ==
    [pc |-> "idle", method |-> "none", key |-> "none", newKey |-> "none",
     itemValid |-> FALSE, sawDirty |-> FALSE, sawKind |-> "none",
     acquired |-> 0, disposed |-> 0, edits |-> 0, saves |-> 0,
     result |-> "none", before |-> NoDocument]

\* The URIs breakdown items refer to.
URIs == {"a.ts", "b.ts"}

\* The probe model before its first response.
NoResponse ==
    [hasResponse |-> FALSE, breakdowns |-> <<>>, isTailing |-> FALSE, changes |-> 0]

\* constructor(maxDegreeOfParalellism)
Init ==
    /\ maxDegreeOfParalellism \in 1..MaxParallelism
    /\ _size = 0
    /\ _isDisposed = FALSE
    /\ runningPromises = 0
    /\ outstandingPromises = <<>>
    /\ _onDrained = [disposed |-> FALSE, fired |-> 0]
    /\ promise = [t \in Tasks |-> NoPromise]
    /\ future = [t \in Tasks |-> NoPromise]
    /\ reactions = <<>>
    /\ nextTask = 1
    /\ startOrder = <<>>
    /\ droppedBy = [t \in Tasks |-> "none"]
    /\ thrown = "none"
    /\ behaviour = [t \in Tasks |-> "none"]
    /\ clock = 0
    /\ startedAt = [t \in Tasks |-> 0]
    /\ method = [t \in Tasks |-> "none"]
    /\ calls = [c \in Calls |-> NotCalled]
    /\ owner = [t \in Tasks |-> NoOwner]
    /\ emitted = <<>>
    /\ document = NoDocument
    /\ operation = NoOperation
    /\ _model = NoResponse
    /\ _breakdowns = <<>>
    /\ handlers = <<>>
    /\ created = [u \in URIs |-> 0]
    /\ fired = <<>>

RECURSIVE consume(_), queue(_, _), clear(_), dispose(_)

\* iLimitedTask.factory(): what task t's factory does to the limiter that is
\* invoking it, before it returns.  A task queued from inside a factory is a
\* plain one.
factory(s, t) ==
    CASE s.behaviour[t] = "queues" ->
            IF s.nextTask <= MaxTasks
            THEN queue([s EXCEPT !.nextTask = @ + 1,
                                 !.behaviour[s.nextTask] = "plain"],
                       s.nextTask)
            ELSE s
      [] s.behaviour[t] = "clears" -> clear(s)
      [] s.behaviour[t] = "disposes" -> dispose(s)
      [] s.behaviour[t] = "throws" -> [s EXCEPT !.raised = t]
      [] OTHER -> s

\* consume() with the capacity test off by one (<= for <).
RECURSIVE consumeOver(_)
consumeOver(s) ==
    IF Len(s.outstandingPromises) > 0 /\ s.runningPromises <= maxDegreeOfParalellism
    THEN LET t == Head(s.outstandingPromises)
             d == factory([s EXCEPT !.outstandingPromises = Tail(@),
                                    !.runningPromises = @ + 1,
                                    !.invoked = Append(@, t)], t)
         IN  IF d.raised # 0 THEN d ELSE consumeOver(d)
    ELSE s

\* consume() taking the newest queued task (pop() for shift()).
RECURSIVE consumeLifo(_)
consumeLifo(s) ==
    IF Len(s.outstandingPromises) > 0 /\ s.runningPromises < maxDegreeOfParalellism
    THEN LET n == Len(s.outstandingPromises)
             t == s.outstandingPromises[n]
             d == factory([s EXCEPT !.outstandingPromises = SubSeq(@, 1, n - 1),
                                    !.runningPromises = @ + 1,
                                    !.invoked = Append(@, t)], t)
         IN  IF d.raised # 0 THEN d ELSE consumeLifo(d)
    ELSE s

\* consume() that keeps one slot free (running + 1 < max).
RECURSIVE consumeSpare(_)
consumeSpare(s) ==
    IF Len(s.outstandingPromises) > 0 /\ s.runningPromises + 1 < maxDegreeOfParalellism
    THEN LET t == Head(s.outstandingPromises)
             d == factory([s EXCEPT !.outstandingPromises = Tail(@),
                                    !.runningPromises = @ + 1,
                                    !.invoked = Append(@, t)], t)
         IN  IF d.raised # 0 THEN d ELSE consumeSpare(d)
    ELSE s

\* consume() that reads the head of the queue, invokes the factory and only
\* then removes the head.
RECURSIVE consumePeek(_)
consumePeek(s) ==
    IF Len(s.outstandingPromises) > 0 /\ s.runningPromises < maxDegreeOfParalellism
    THEN LET t == Head(s.outstandingPromises)
             d == factory([s EXCEPT !.runningPromises = @ + 1,
                                    !.invoked = Append(@, t)], t)
             r == [d EXCEPT !.outstandingPromises =
                                IF Len(@) > 0 THEN Tail(@) ELSE @]
         IN  IF d.raised # 0 THEN r ELSE consumePeek(r)
    ELSE s

\* consume(): start queued tasks from the head while there is capacity.  An
\* exception thrown by a factory leaves the loop after the task was shifted
\* and counted.
consume(s) ==
    IF Len(s.outstandingPromises) > 0 /\ s.runningPromises < maxDegreeOfParalellism
    THEN LET t == Head(s.outstandingPromises)
             d == factory([s EXCEPT !.outstandingPromises = Tail(@),
                                    !.runningPromises = @ + 1,
                                    !.invoked = Append(@, t)], t)
         IN  IF d.raised # 0 THEN d ELSE consume(d)
    ELSE s

\* new Promise(executor): an exception thrown by the executor rejects the
\* promise of task t with the error of the task that threw it.
executor(d, t) ==
    IF d.raised # 0
    THEN [d EXCEPT !.future[t] = Rejected(d.raised), !.raised = 0]
    ELSE d

\* queue() without the disposed check.
queueNoCheck(s, t) ==
    executor(consume([s EXCEPT !._size = @ + 1,
                               !.future[t] = Pending,
                               !.outstandingPromises = Append(@, t)]), t)

\* queue(factory), for the factory of task t.
queue(s, t) ==
    IF s._isDisposed
    THEN [s EXCEPT !.thrown = DisposedError]
    ELSE executor(consume([s EXCEPT !._size = @ + 1,
                                    !.future[t] = Pending,
                                    !.outstandingPromises = Append(@, t)]), t)

\* consumed() that does not drain the queue after decrementing.
consumedNoDrain(s) ==
    IF s._isDisposed
    THEN s
    ELSE [s EXCEPT !.runningPromises = @ - 1, !._size = @ - 1]

\* consumed() that forgets to decrement runningPromises.
consumedKeepCount(s) ==
    IF s._isDisposed
    THEN s
    ELSE LET d == [s EXCEPT !._size = @ - 1]
         IN  IF Len(d.outstandingPromises) > 0 THEN consume(d) ELSE d

\* consumed() without the disposed check.
consumedNoCheck(s) ==
    LET d == [s EXCEPT !.runningPromises = @ - 1, !._size = @ - 1]
    IN  IF Len(d.outstandingPromises) > 0 THEN consume(d) ELSE d

\* consumed() with the commented-out this._onDrained.fire() restored.
consumedFires(s) ==
    IF s._isDisposed
    THEN s
    ELSE LET d == [s EXCEPT !.runningPromises = @ - 1,
                            !._size = @ - 1,
                            !._onDrained = IF s._size - 1 = 0
                                           THEN [@ EXCEPT !.fired = 1]
                                           ELSE @]
         IN  IF Len(d.outstandingPromises) > 0 THEN consume(d) ELSE d

\* consumed(): the reaction to a started task's promise settling.
consumed(s) ==
    IF s._isDisposed
    THEN s
    ELSE LET d == [s EXCEPT !.runningPromises = @ - 1, !._size = @ - 1]
         IN  IF Len(d.outstandingPromises) > 0 THEN consume(d) ELSE d

\* clear() that resets _size to zero instead of the running count.
clearZero(s) ==
    IF s._isDisposed
    THEN [s EXCEPT !.thrown = DisposedError]
    ELSE [s EXCEPT !.outstandingPromises = <<>>,
                   !._size = 0]

\* clear() that leaves the oldest queued task in the queue.
clearKeepHead(s) ==
    IF s._isDisposed
    THEN [s EXCEPT !.thrown = DisposedError]
    ELSE [s EXCEPT !.outstandingPromises = SubSeq(@, 1, IF Len(@) > 0 THEN 1 ELSE 0),
                   !._size = s.runningPromises]

\* clear() without the disposed check.
clearNoCheck(s) ==
    [s EXCEPT !.outstandingPromises = <<>>,
              !._size = s.runningPromises]

\* clear()
clear(s) ==
    IF s._isDisposed
    THEN [s EXCEPT !.thrown = DisposedError]
    ELSE [s EXCEPT !.outstandingPromises = <<>>,
                   !._size = s.runningPromises]

\* dispose() that does not empty the queue.
disposeKeepQueue(s) ==
    [s EXCEPT !._isDisposed = TRUE,
              !._size = 0,
              !._onDrained = [@ EXCEPT !.disposed = TRUE]]

\* dispose()
dispose(s) ==
    [s EXCEPT !._isDisposed = TRUE,
              !.outstandingPromises = <<>>,
              !._size = 0,
              !._onDrained = [@ EXCEPT !.disposed = TRUE]]

\* promise.then(iLimitedTask.c, iLimitedTask.c): a rejection resolves the
\* future.
thenCC(p) ==
    IF p.state = "fulfilled" THEN Fulfilled(p.val) ELSE Fulfilled(p.val)

\* promise.then(iLimitedTask.c, iLimitedTask.e): the returned future takes
\* the outcome of the task's promise p.
thenCE(p) ==
    IF p.state = "fulfilled" THEN Fulfilled(p.val) ELSE Rejected(p.val)

\* promise.then(() => this.consumed()): no reaction to a rejection.
thenConsumedOnFulfil(p, s) ==
    IF p.state = "fulfilled" THEN consumed(s) ELSE s

\* promise.then(() => this.consumed(), () => this.consumed())
thenConsumed(p, s) ==
    IF p.state = "fulfilled" THEN consumed(s) ELSE consumed(s)

\* The queued tasks a call that left the limiter in s removed without
\* starting them: the ones queued before the call or during it that are
\* neither queued nor invoked after it.
Dropped(s) ==
    (Range(outstandingPromises) \cup
        {t \in Tasks : future[t] = NoPromise /\ s.future[t] # NoPromise})
    \ (Range(s.outstandingPromises) \cup Range(s.invoked))

\* The limiter's fields after a call that left it in s.  The factories the
\* call invoked have returned their (pending) promises, unless they threw;
\* only clear() and dispose() remove queued tasks.
Store(s) ==
    /\ _size' = s._size
    /\ _isDisposed' = s._isDisposed
    /\ runningPromises' = s.runningPromises
    /\ outstandingPromises' = s.outstandingPromises
    /\ _onDrained' = s._onDrained
    /\ future' = s.future
    /\ nextTask' = s.nextTask
    /\ behaviour' = s.behaviour
    /\ thrown' = s.thrown
    /\ promise' = [t \in Tasks |->
                     IF t \in Range(s.invoked) /\ s.behaviour[t] # "throws"
                     THEN Pending
                     ELSE promise[t]]
    /\ startOrder' = startOrder \o s.invoked
    /\ startedAt' = [t \in Tasks |->
                       IF t \in Range(s.invoked) THEN clock ELSE startedAt[t]]
    /\ droppedBy' = [t \in Tasks |->
                       IF t \in Dropped(s)
                       THEN (IF s._isDisposed THEN "dispose" ELSE "clear")
                       ELSE droppedBy[t]]
    /\ UNCHANGED maxDegreeOfParalellism

\* limiter.queue(factory) for a factory with behaviour kind.
Submit(kind) ==
    /\ nextTask <= MaxTasks
    /\ LET t == nextTask
       IN  Store(queue([Self EXCEPT !.nextTask = t + 1,
                                    !.behaviour[t] = kind], t))
    /\ UNCHANGED reactions

\* A caller calls limiter.queue(factory) with a factory that returns a
\* promise.
Queue ==
    /\ Submit("plain")
    /\ UNCHANGED <<clock, editingVars, applyVars, docVars, probeVars>>

\* The promise of started task t settles with outcome o; its reactions are
\* enqueued.
SettleTask(t, o) ==
    /\ promise[t] = Pending
    /\ promise' = [promise EXCEPT ![t] = o]
    /\ reactions' = Append(reactions, t)
    /\ UNCHANGED <<maxDegreeOfParalellism, _size, _isDisposed,
                   runningPromises, outstandingPromises, _onDrained,
                   future, nextTask, startOrder, droppedBy, thrown,
                   behaviour, startedAt>>

\* The promise of a started task settles.
Settle ==
    /\ \E t \in Tasks : \E o \in Outcomes(t) : SettleTask(t, o)
    /\ UNCHANGED <<clock, editingVars, applyVars, docVars, probeVars>>

\* React in which dispose() also detaches the returned futures: c and e do
\* nothing on a disposed limiter.
ReactUnlessDisposed ==
    /\ Len(reactions) > 0
    /\ LET t == Head(reactions)
           c == [Self EXCEPT !.future[t] =
                    IF _isDisposed THEN @ ELSE thenCE(promise[t])]
       IN  Store(thenConsumed(promise[t], c))
    /\ reactions' = Tail(reactions)
    /\ UNCHANGED <<clock, editingVars, applyVars, docVars, probeVars>>

\* The reactions of the earliest settled task run: c or e settles the
\* returned future, then consumed() runs.  An exception that leaves
\* consumed() rejects a promise nobody holds.
React ==
    /\ Len(reactions) > 0
    /\ LET t == Head(reactions)
           c == [Self EXCEPT !.future[t] = thenCE(promise[t])]
       IN  Store(thenConsumed(promise[t], c))
    /\ reactions' = Tail(reactions)
    /\ UNCHANGED <<clock, editingVars, applyVars, docVars, probeVars>>

\* A caller calls limiter.clear().
Clear ==
    /\ Store(clear(Self))
    /\ UNCHANGED <<reactions, clock, editingVars, applyVars, docVars, probeVars>>

\* A caller calls limiter.dispose().
Dispose ==
    /\ Store(dispose(Self))
    /\ UNCHANGED <<reactions, clock, editingVars, applyVars, docVars, probeVars>>

\* The tasks whose factory has been invoked.
Started == Range(startOrder)

\* The started tasks whose own promise has not settled.
Running == {t \in Tasks : promise[t] = Pending}

\* The started tasks whose completion the limiter has not handled yet: the
\* reactions registered in consume() have not run.
InFlight == {t \in Started : future[t] = Pending}

\* The tasks a queue() call accepted, and the ones it refused by throwing.
Accepted == {t \in Tasks : t < nextTask /\ future[t] # NoPromise}
Refused == {t \in Tasks : t < nextTask /\ future[t] = NoPromise}

Next ==
    \/ Queue
    \/ Settle
    \/ React
    \/ Clear
    \/ Dispose

Spec == Init /\ [][Next]_vars

----------------------------------------------------------------------------
\* C1: with a maximum degree of parallelism N >= 1, in every reachable state
\* at most N tasks have been started and have not settled.  The bound holds
\* for the tasks whose own promise is pending, for the started tasks whose
\* completion the limiter has not handled yet, and for the running count
\* itself; consumed() decrements before it dequeues, so a completion never
\* leaves more than N behind.
C1_AtMostNRunning ==
    /\ Cardinality(Running) <= maxDegreeOfParalellism
    /\ Cardinality(InFlight) <= maxDegreeOfParalellism
    /\ runningPromises <= maxDegreeOfParalellism

\* The ceiling is reached with tasks waiting, after completions have already
\* started queued tasks.
C1_Witness ==
    /\ maxDegreeOfParalellism = 2
    /\ Cardinality(Running) = 2
    /\ Len(startOrder) > 2
    /\ Len(outstandingPromises) > 0

\* C2: tasks are started in submission order.  Task numbers are submission
\* order, so the invocation order is increasing, and when a task B has been
\* started every task A accepted before B was started before it or was
\* dropped by clear()/dispose().
C2_StartInSubmissionOrder ==
    /\ \A i, j \in 1..Len(startOrder) :
          i < j => startOrder[i] < startOrder[j]
    /\ \A b \in Started : \A a \in Accepted :
          a < b => a \in Started \/ droppedBy[a] # "none"

\* Four tasks were started through two slots, and a task submitted later
\* completed before one submitted earlier.
C2_Witness ==
    /\ maxDegreeOfParalellism = 2
    /\ Len(startOrder) >= 4
    /\ \E a, b \in Started :
          a < b /\ Settled(future[b]) /\ ~Settled(future[a])

\* C3: the future queue() returned for a task settles with that task's own
\* outcome.  A fulfilled future carries the value the task's promise
\* fulfilled with, a rejected future the error it rejected with; once the
\* reactions of a settled task have run its future has that outcome; and a
\* future is never settled unless the task was started.
C3_FutureHasOwnOutcome ==
    \A t \in Tasks :
        /\ future[t].state = "fulfilled" =>
              promise[t].state = "fulfilled" /\ promise[t].val = future[t].val
        /\ future[t].state = "rejected" =>
              promise[t].state = "rejected" /\ promise[t].val = future[t].val
        /\ (Settled(promise[t]) /\ t \notin Range(reactions)) =>
              (future[t].state = promise[t].state /\ future[t].val = promise[t].val)
        /\ Settled(future[t]) => t \in Started

\* One future was fulfilled and another rejected.
C3_Witness ==
    \E t, u \in Tasks :
        /\ future[t] = Fulfilled(t)
        /\ future[u] = Rejected(u)

\* C4: a task's failure is isolated.  When the reactions of a task that
\* rejected run, only that task's future changes and it is rejected with the
\* task's error; the limiter handles the completion as it does a success
\* (on a limiter that is not disposed the size drops by one and a waiting
\* head task is started).  A rejected future always carries its own task's
\* error, and of two tasks whose reactions have run, one rejected with E and
\* one fulfilled with V, the futures are rejected with E and fulfilled with
\* V.
C4_FailureIsolated ==
    /\ [][(React /\ promise[Head(reactions)].state = "rejected") =>
            /\ future'[Head(reactions)] = Rejected(promise[Head(reactions)].val)
            /\ \A u \in Tasks \ {Head(reactions)} : future'[u] = future[u]
            /\ ~_isDisposed =>
                  /\ _size' = _size - 1
                  /\ outstandingPromises # <<>> =>
                        promise'[Head(outstandingPromises)] = Pending]_vars
    /\ [](\A a, b \in Tasks :
            /\ future[b].state = "rejected" =>
                  (promise[b] = future[b] /\ future[b] = Rejected(b))
            /\ \A err, v \in Tasks :
                  (/\ a # b
                   /\ promise[a] = Rejected(err)
                   /\ promise[b] = Fulfilled(v)
                   /\ a \notin Range(reactions)
                   /\ b \notin Range(reactions)) =>
                  (future[a] = Rejected(err) /\ future[b] = Fulfilled(v)))

\* With one task at a time, a task rejected between a task submitted before
\* it and a task submitted after it, both of which were fulfilled.
C4_Witness ==
    /\ maxDegreeOfParalellism = 1
    /\ \E a, b, c \in Tasks :
          /\ a < b /\ b < c
          /\ future[a] = Fulfilled(a)
          /\ future[b] = Rejected(b)
          /\ future[c] = Fulfilled(c)

\* C5: after dispose(), a queue() call throws instead of accepting the task:
\* it returns no future, leaves the size, the queue and the running count
\* unchanged, and the factory of a refused task is never invoked.
C5_QueueAfterDisposeThrows ==
    /\ [][(Queue /\ _isDisposed) =>
            /\ thrown' = DisposedError
            /\ future'[nextTask] = NoPromise
            /\ UNCHANGED <<_size, outstandingPromises, runningPromises,
                           promise, startOrder>>]_vars
    /\ [](\A t \in Refused : t \notin Started /\ promise[t] = NoPromise)

\* A queue() call was refused on a disposed limiter.
C5_Witness ==
    /\ _isDisposed
    /\ thrown = DisposedError
    /\ Refused # {}

\* C6 as stated: in every reachable state the size is the number of queued
\* tasks plus the number of started tasks whose completion has not been
\* handled.
C6_SizeIsQueuedPlusRunning ==
    _size = Len(outstandingPromises) + Cardinality(InFlight)

\* C6, amended: on a limiter that has not been disposed, the size is the
\* number of queued tasks plus the number of started tasks whose completion
\* the limiter has not handled yet.
C6_SizeIsQueuedPlusRunningUnlessDisposed ==
    ~_isDisposed =>
        _size = Len(outstandingPromises) + Cardinality(InFlight)

\* After a clear() that dropped a task, the limiter has tasks queued and
\* tasks running again.
C6_Witness ==
    /\ ~_isDisposed
    /\ \E t \in Tasks : droppedBy[t] = "clear"
    /\ Len(outstandingPromises) > 0
    /\ Cardinality(InFlight) > 0
    /\ Len(reactions) > 0

\* C7: the limiter is work-conserving: in no reachable state is the queue
\* non-empty while the running count is below the maximum.
C7_WorkConserving ==
    ~(Len(outstandingPromises) > 0 /\ runningPromises < maxDegreeOfParalellism)

\* A completion freed capacity while a task was queued, and the task was
\* started: the queue is empty again with every submitted task started.
C7_Witness ==
    /\ Len(startOrder) > maxDegreeOfParalellism
    /\ outstandingPromises = <<>>
    /\ runningPromises > 0
    /\ ~_isDisposed
    /\ \A t \in Tasks : droppedBy[t] = "none"

\* The number of tasks a step starts.
NewlyStarted == Len(startOrder') - Len(startOrder)

\* What C8 says of a completion: the running count has dropped by one before
\* the queued tasks are started from the head, in order, until the queue is
\* empty or the running count is at the maximum again.
DecrementThenDrain ==
    /\ runningPromises' = runningPromises - 1 + NewlyStarted
    /\ startOrder' = startOrder \o SubSeq(outstandingPromises, 1, NewlyStarted)
    /\ outstandingPromises' =
          SubSeq(outstandingPromises, NewlyStarted + 1, Len(outstandingPromises))
    /\ \/ outstandingPromises' = <<>>
       \/ runningPromises' = maxDegreeOfParalellism

\* C8 as stated: whenever the completion of a started task is handled,
\* fulfilled or rejected, the running count is decremented by one and the
\* queue is drained.
C8_CompletionDecrementsAndDrains ==
    [][React => DecrementThenDrain]_vars

\* C8, amended: on a limiter that has not been disposed, the completion of a
\* started task, fulfilled or rejected, decrements the running count by one
\* and drains the queue; on a disposed limiter it changes none of the
\* limiter's fields and starts nothing.
C8_CompletionDecrementsAndDrainsUnlessDisposed ==
    [][React =>
         /\ ~_isDisposed => DecrementThenDrain
         /\ _isDisposed =>
               UNCHANGED <<_size, runningPromises, outstandingPromises,
                           startOrder>>]_vars

\* A rejected task's completion started the head of a queue of two on a
\* limiter with one slot: the other task is still queued.
C8_Witness ==
    /\ maxDegreeOfParalellism = 1
    /\ ~_isDisposed
    /\ future[1].state = "rejected"
    /\ startOrder = <<1, 2>>
    /\ outstandingPromises = <<3>>

\* C9: clear() removes every task that is queued and not started.  The call
\* empties the queue and leaves the running tasks, their promises, the
\* futures and the running count as they were; a task dropped by clear()
\* never has its factory invoked and its future stays pending.
C9_ClearDropsQueuedOnly ==
    /\ [][Clear =>
            /\ outstandingPromises' = <<>>
            /\ \A t \in Range(outstandingPromises) : droppedBy'[t] = "clear"
            /\ UNCHANGED <<runningPromises, promise, future, startOrder,
                           reactions>>]_vars
    /\ [](\A t \in Tasks :
            droppedBy[t] = "clear" =>
                /\ t \notin Started
                /\ promise[t] = NoPromise
                /\ future[t] = Pending)

\* A task was dropped by clear() while an earlier task was running; the
\* earlier task has since completed and a task queued after the clear() has
\* been started.
C9_Witness ==
    \E r, t, u \in Tasks :
        /\ r < t /\ t < u
        /\ droppedBy[t] = "clear"
        /\ Settled(future[r])
        /\ u \in Started

\* C10: dispose() marks the limiter disposed and empties the queue.  On a
\* disposed limiter no factory is invoked any more, whatever completes; a
\* task dropped by dispose() is never started and its future stays pending.
C10_DisposeDropsQueued ==
    /\ [][Dispose =>
            /\ _isDisposed'
            /\ outstandingPromises' = <<>>
            /\ \A t \in Range(outstandingPromises) : droppedBy'[t] = "dispose"]_vars
    /\ [][_isDisposed =>
            /\ _isDisposed'
            /\ startOrder' = startOrder
            /\ outstandingPromises' = <<>>]_vars
    /\ [](\A t \in Tasks :
            droppedBy[t] = "dispose" =>
                /\ t \notin Started
                /\ promise[t] = NoPromise
                /\ future[t] = Pending)

\* Tasks were dropped by dispose() and every task running at that time has
\* completed since: the running count was left as it was.
C10_Witness ==
    /\ _isDisposed
    /\ \E t \in Tasks : droppedBy[t] = "dispose"
    /\ runningPromises > 0
    /\ InFlight = {}

----------------------------------------------------------------------------
\* The limiter with the microtask queue always drained: reactions that are
\* enqueued run.
FairSpec == Spec /\ WF_vars(React)

\* C11: clear() and dispose() do not cancel started tasks.  Neither call
\* touches a task's promise, a future or a pending reaction; the reactions of
\* a settled task give its future the task's own outcome whether or not the
\* limiter has been cleared or disposed since; and every started task whose
\* promise settles has its future settled.
C11_StartedTasksNotCancelled ==
    /\ [][(Clear \/ Dispose) =>
            UNCHANGED <<promise, future, reactions, startOrder>>]_vars
    /\ [][React =>
            /\ future'[Head(reactions)].state = promise[Head(reactions)].state
            /\ future'[Head(reactions)].val = promise[Head(reactions)].val]_vars
    /\ \A t \in Tasks : Settled(promise[t]) ~> Settled(future[t])

\* Two tasks were running when dispose() was called (their completions left
\* the running count at two); one has fulfilled its future and the other
\* rejected it.
C11_Witness ==
    /\ _isDisposed
    /\ runningPromises = 2
    /\ InFlight = {}
    /\ \E t, u \in Tasks : future[t] = Fulfilled(t) /\ future[u] = Rejected(u)

----------------------------------------------------------------------------
\* The limiter on which clear() and dispose() are never called.
LiveNext ==
    \/ Queue
    \/ Settle
    \/ React

\* Every started task eventually settles, and the microtask queue is
\* drained.
LiveSpec ==
    /\ Init
    /\ [][LiveNext]_vars
    /\ WF_vars(React)
    /\ \A t \in Tasks :
          WF_vars(/\ \E o \in Outcomes(t) : SettleTask(t, o)
                  /\ UNCHANGED <<clock, editingVars, applyVars, docVars, probeVars>>)

\* C12: on a limiter with N >= 1 on which clear() and dispose() are never
\* called and whose started tasks all settle, every task accepted by
\* queue() is eventually started and its future eventually settles.  A
\* future settles only if its task was started; a future, once returned, is
\* not withdrawn and once settled does not change; and from some point on no
\* accepted task is left with a pending future.
C12_EverySubmittedTaskCompletes ==
    /\ [](\A t \in Tasks : Settled(future[t]) => t \in Started)
    /\ [][\A t \in Tasks :
            /\ future[t] # NoPromise => future'[t] # NoPromise
            /\ Settled(future[t]) => future'[t] = future[t]]_vars
    /\ <>[](\A t \in Tasks : future[t] # Pending)

\* With one slot, every task of the stream has been submitted, started and
\* completed.
C12_Witness ==
    /\ maxDegreeOfParalellism = 1
    /\ nextTask > MaxTasks
    /\ \A t \in Tasks : Settled(future[t])

----------------------------------------------------------------------------
\* Tasks of equal duration, all submitted at time 0: a task started at time
\* T settles at time T + 1.
QueueAtStart ==
    /\ clock = 0
    /\ Queue

\* A task whose duration has passed settles.
TimedSettle ==
    /\ \E t \in Tasks : \E o \in Outcomes(t) :
          /\ startedAt[t] < clock
          /\ SettleTask(t, o)
    /\ UNCHANGED <<clock, editingVars, applyVars, docVars, probeVars>>

\* Time passes by one duration: tasks are running, none of them is due and
\* no reaction is waiting in the microtask queue.
Tick ==
    /\ Running # {}
    /\ \A t \in Running : startedAt[t] = clock
    /\ reactions = <<>>
    /\ clock' = clock + 1
    /\ UNCHANGED <<limiterVars, editingVars, applyVars, docVars, probeVars>>

TimedNext ==
    \/ QueueAtStart
    \/ TimedSettle
    \/ React
    \/ Tick

TimedSpec == Init /\ [][TimedNext]_vars

\* The tasks of the scenario whose future has not settled.
Uncompleted == {t \in 1..5 : ~Settled(future[t])}

\* C13: with maximum parallelism 2 and five tasks of equal duration
\* submitted before any completes, never more than two tasks are running and
\* exactly two are running whenever at least two tasks are uncompleted; task
\* t is started in round ceil(t/2), at time ceil(t/2) - 1, and settles one
\* duration later, so tasks 1-2, 3-4 and 5 complete in three successive
\* rounds and all five have completed at time 3.
C13_FiveTasksTwoAtATime ==
    (maxDegreeOfParalellism = 2 /\ nextTask = 6) =>
        /\ Cardinality(InFlight) <= 2
        /\ Cardinality(Uncompleted) >= 2 => Cardinality(InFlight) = 2
        /\ \A t \in 1..5 :
              /\ t \in Started => startedAt[t] = (t - 1) \div 2
              /\ promise[t] = Pending => clock <= ((t - 1) \div 2) + 1
              /\ Settled(promise[t]) => clock >= ((t - 1) \div 2) + 1
        /\ Uncompleted = {} => clock = 3

\* The five tasks have completed, two at a time, at time 3.
C13_Witness ==
    /\ maxDegreeOfParalellism = 2
    /\ nextTask = 6
    /\ Uncompleted = {}
    /\ startOrder = <<1, 2, 3, 4, 5>>
    /\ clock = 3

----------------------------------------------------------------------------
\* ModelSelectionEditingService (aiModelEditing.ts).  Its queue is a
\* Queue<void> of vs/base/common/async: a limiter that runs one task at a
\* time.
QueueDegree == 1

\* Number of edit calls explored.
MaxEdits == 3

\* The editing methods of the service.
Methods == {"editModelSelection", "addModelConfiguration",
            "editModelConfiguration", "editProviderConfiguration",
            "cloneProviderConfiguration"}

\* constructor: this.queue = new Queue<void>()
EditingInit ==
    /\ Init
    /\ maxDegreeOfParalellism = QueueDegree

\* return this.queue.queue(() => this.doEdit...(...)) for method m: the
\* resolve-modify-save operation is the task's factory.
EditCall(m) ==
    /\ nextTask <= MaxEdits
    /\ method' = [method EXCEPT ![nextTask] = m]
    /\ Submit("plain")
    /\ UNCHANGED <<clock, applyVars, docVars, probeVars>>

\* editModelSelection calling doEditModelSelection itself instead of
\* queueing it.
EditModelSelectionUnqueued ==
    /\ nextTask <= MaxEdits
    /\ method' = [method EXCEPT ![nextTask] = "editModelSelection"]
    /\ promise' = [promise EXCEPT ![nextTask] = Pending]
    /\ future' = [future EXCEPT ![nextTask] = Pending]
    /\ startOrder' = Append(startOrder, nextTask)
    /\ nextTask' = nextTask + 1
    /\ UNCHANGED <<maxDegreeOfParalellism, _size, _isDisposed,
                   runningPromises, outstandingPromises, _onDrained,
                   reactions, droppedBy, thrown, behaviour, startedAt,
                   clock, applyVars, docVars, probeVars>>

EditModelSelection == EditCall("editModelSelection")

AddModelConfiguration == EditCall("addModelConfiguration")

EditModelConfiguration == EditCall("editModelConfiguration")

EditProviderConfiguration == EditCall("editProviderConfiguration")

CloneProviderConfiguration == EditCall("cloneProviderConfiguration")

EditingNext ==
    \/ EditModelSelection
    \/ AddModelConfiguration
    \/ EditModelConfiguration
    \/ EditProviderConfiguration
    \/ CloneProviderConfiguration
    \/ Settle
    \/ React

EditingSpec == EditingInit /\ [][EditingNext]_vars

\* C14: the service serializes its edits.  At most one resolve-modify-save
\* operation is running; the operations are started in call order, none
\* skipped; and when an operation has been started every operation called
\* before it has settled, resolved or rejected, and its future with it.
C14_EditsRunOneAtATimeInCallOrder ==
    /\ Cardinality(Running) <= 1
    /\ Cardinality(InFlight) <= 1
    /\ \A i \in 1..Len(startOrder) : startOrder[i] = i
    /\ \A b \in Started : \A a \in 1..(b - 1) :
          Settled(promise[a]) /\ Settled(future[a])

\* Three different edits were called; the first was rejected, the second
\* resolved and the third is running.
C14_Witness ==
    /\ method[1] = "editModelSelection"
    /\ method[2] = "cloneProviderConfiguration"
    /\ method[3] = "addModelConfiguration"
    /\ future[1] = Rejected(1)
    /\ future[2] = Fulfilled(2)
    /\ promise[3] = Pending

----------------------------------------------------------------------------
\* applyEdits in streaming mode (apply_directly false), for several calls
\* that share one limiter.  Call c edits calls[c].lines lines; it awaits
\* limiter.queue(...) for one line before it submits the next.

\* await limiter.queue(async () => {...}) for line i of the n lines of call
\* c: queue() runs at once; if it throws, the call's promise rejects.
SubmitLine(c, n, i) ==
    /\ nextTask <= MaxTasks
    /\ LET t == nextTask
           s == queue([Self EXCEPT !.nextTask = t + 1,
                                   !.behaviour[t] = "plain"], t)
       IN  /\ Store(s)
           /\ owner' = [owner EXCEPT ![t] =
                           IF s.thrown = "none"
                           THEN [call |-> c, line |-> i]
                           ELSE NoOwner]
           /\ calls' = [calls EXCEPT ![c] =
                           IF s.thrown = "none"
                           THEN [pc |-> "awaiting", lines |-> n, line |-> i, task |-> t]
                           ELSE [pc |-> "rejected", lines |-> n, line |-> i, task |-> 0]]
    /\ UNCHANGED <<reactions, clock, editingVars, docVars, probeVars, emitted>>

\* applyEdits(request, response, limiter) is called: the content is split
\* into n >= 1 lines and the first line is submitted.
ApplyEdits ==
    \E c \in Calls : \E n \in 1..MaxLines :
        /\ calls[c].pc = "idle"
        /\ SubmitLine(c, n, 1)

\* The body of a started line-edit task, after its delay: it calls
\* response.codeEdit for its line twice, the second time awaited.
EditLine ==
    \E t \in Tasks :
        /\ promise[t] = Pending
        /\ owner[t] # NoOwner
        /\ owner[t] \notin Range(emitted)
        /\ emitted' = emitted \o <<owner[t], owner[t]>>
        /\ UNCHANGED <<limiterVars, clock, editingVars, docVars, probeVars, calls, owner>>

\* The awaited response.codeEdit settles and with it the task's promise.
SettleEdit ==
    /\ \E t \in Tasks : \E o \in Outcomes(t) :
          /\ owner[t] \in Range(emitted)
          /\ SettleTask(t, o)
    /\ UNCHANGED <<clock, editingVars, applyVars, docVars, probeVars>>

\* A call continues after its await, whatever the state of the awaited
\* future.
ResumeEarly ==
    \E c \in Calls :
        /\ calls[c].pc = "awaiting"
        /\ IF future[calls[c].task].state = "rejected"
           THEN /\ calls' = [calls EXCEPT ![c].pc = "rejected"]
                /\ UNCHANGED <<limiterVars, clock, editingVars, docVars, probeVars, owner, emitted>>
           ELSE IF calls[c].line < calls[c].lines
           THEN SubmitLine(c, calls[c].lines, calls[c].line + 1)
           ELSE /\ calls' = [calls EXCEPT ![c].pc = "returned"]
                /\ UNCHANGED <<limiterVars, clock, editingVars, docVars, probeVars, owner, emitted>>

\* A call continues after its await once the awaited future has settled: a
\* rejection leaves the loop and rejects the call; otherwise the next line
\* is submitted or, after the last line, the call returns.
Resume ==
    \E c \in Calls :
        /\ calls[c].pc = "awaiting"
        /\ Settled(future[calls[c].task])
        /\ IF future[calls[c].task].state = "rejected"
           THEN /\ calls' = [calls EXCEPT ![c].pc = "rejected"]
                /\ UNCHANGED <<limiterVars, clock, editingVars, docVars, probeVars, owner, emitted>>
           ELSE IF calls[c].line < calls[c].lines
           THEN SubmitLine(c, calls[c].lines, calls[c].line + 1)
           ELSE /\ calls' = [calls EXCEPT ![c].pc = "returned"]
                /\ UNCHANGED <<limiterVars, clock, editingVars, docVars, probeVars, owner, emitted>>

ApplyNext ==
    \/ ApplyEdits
    \/ EditLine
    \/ SettleEdit
    \/ React
    \/ Resume
    \/ Clear
    \/ Dispose

ApplySpec == Init /\ [][ApplyNext]_vars

\* The line-edit tasks of call c, and those of them the limiter holds:
\* queued, or started and not yet completed.
TasksOf(c) == {t \in Tasks : owner[t].call = c}
HeldFor(c) == {t \in TasksOf(c) : t \in Range(outstandingPromises) \/ t \in InFlight}

\* C15: a streaming applyEdits call applies its lines one at a time through
\* the limiter.  The task for line i > 1 exists only when the future of the
\* task for line i - 1 has been fulfilled; a call never has more than one
\* task queued or running in the limiter; and the codeEdit calls made for one
\* call are in increasing line order (each line's edit is sent twice in a
\* row), however the calls sharing the limiter interleave.
C15_OneLineAtATimeInOrder ==
    \A c \in Calls :
        /\ Cardinality(HeldFor(c)) <= 1
        /\ \A t, u \in TasksOf(c) :
              owner[u].line = owner[t].line + 1 =>
                  (t < u /\ future[t] = Fulfilled(t))
        /\ \A t, u \in TasksOf(c) : t # u => owner[t].line # owner[u].line
        /\ \A j, k \in 1..Len(emitted) :
              (j < k /\ emitted[j].call = c /\ emitted[k].call = c) =>
                  emitted[j].line <= emitted[k].line
        /\ \A k \in 1..Len(emitted) :
              (emitted[k].call = c /\ emitted[k].line > 1) =>
                  \E j \in 1..(k - 1) :
                      emitted[j] = [call |-> c, line |-> emitted[k].line - 1]

\* Two calls of two lines each shared the limiter and both returned, the
\* second call's first line emitted between the two lines of the first.
C15_Witness ==
    /\ \A c \in {1, 2} : calls[c].pc = "returned" /\ calls[c].lines = 2
    /\ \E i, j, k \in 1..Len(emitted) :
          /\ i < j /\ j < k
          /\ emitted[i] = [call |-> 1, line |-> 1]
          /\ emitted[j] = [call |-> 2, line |-> 1]
          /\ emitted[k] = [call |-> 1, line |-> 2]

\* The calls that await a line-edit task which clear() or dispose() removed
\* from the queue before it was started.
AwaitingDropped ==
    {c \in Calls : calls[c].pc = "awaiting" /\ droppedBy[calls[c].task] # "none"}

\* C18: when clear() or dispose() drops the queued, not yet started task a
\* streaming applyEdits call is awaiting, the call never returns: it keeps
\* awaiting that task, whose future stays pending, and neither resolves nor
\* rejects.  A call that reaches its first line on a limiter that is already
\* disposed rejects.
C18_DroppedLineHangsCall ==
    /\ [](\A t \in Tasks :
            (droppedBy[t] # "none" /\ owner[t] # NoOwner) =>
                /\ owner[t].call \in AwaitingDropped
                /\ calls[owner[t].call].task = t
                /\ future[t] = Pending)
    /\ [][\A c \in AwaitingDropped : calls'[c] = calls[c]]_vars
    /\ [][\A c \in Calls :
            (_isDisposed /\ calls[c].pc = "idle" /\ calls'[c].pc # "idle") =>
                calls'[c].pc = "rejected"]_vars

\* The first call hangs on a line dropped by clear(); the limiter was then
\* disposed and the second call, made afterwards, was rejected at its first
\* line.
C18_Witness ==
    /\ calls[1].pc = "awaiting"
    /\ droppedBy[calls[1].task] = "clear"
    /\ calls[2].pc = "rejected"
    /\ calls[2].line = 1
    /\ _isDisposed

----------------------------------------------------------------------------
\* Factories that do not simply return a promise.

\* The number of submitted factories that do something else than return a
\* promise is at most this.
MaxEffects == 2

\* With such factories, callers submit at most this many tasks.
MaxSubmitted == 3

\* The tasks whose factory throws or calls the limiter.
Effects == {t \in Tasks : behaviour[t] \in {"throws"} \cup Reentrant}

\* A caller calls limiter.queue(factory) with a factory that throws when it
\* is invoked, instead of returning a rejected promise.
QueueThrowing ==
    /\ nextTask <= MaxSubmitted
    /\ Cardinality(Effects) < MaxEffects
    /\ Submit("throws")
    /\ UNCHANGED <<clock, editingVars, applyVars, docVars, probeVars>>

\* A caller calls limiter.queue(factory) with a factory that, when it is
\* invoked, calls queue(), clear() or dispose() on the same limiter before
\* it returns its promise.
QueueReentrant ==
    /\ nextTask <= MaxSubmitted
    /\ Cardinality(Effects) < MaxEffects
    /\ \E kind \in Reentrant : Submit(kind)
    /\ UNCHANGED <<clock, editingVars, applyVars, docVars, probeVars>>

\* A caller calls limiter.queue(factory) with a factory that returns a
\* promise, on a limiter that is also given other factories.
QueuePlain ==
    /\ nextTask <= MaxSubmitted
    /\ Queue

\* The limiter used with every kind of factory.
FactoryNext ==
    \/ QueuePlain
    \/ QueueThrowing
    \/ QueueReentrant
    \/ Settle
    \/ React
    \/ Clear
    \/ Dispose

FactorySpec == Init /\ [][FactoryNext]_vars

\* The tasks whose factory was invoked and returned a promise that has not
\* settled, or has settled without its reactions having run yet.
Unsettled ==
    {t \in Started :
        \/ promise[t] = Pending
        \/ Settled(promise[t]) /\ future[t] = Pending}

\* C16 as stated: in every reachable state the running count is the number
\* of tasks whose factory has been invoked and whose promise has not
\* settled, whatever the factories do and also after clear() and dispose().
\* A settled promise whose reactions are still waiting to run is counted as
\* not settled, so that the count is only compared with what consumed() has
\* had the chance to see.
C16_RunningCountIsInvokedUnsettled ==
    runningPromises = Cardinality(Unsettled)

\* A factory threw on a limiter of one slot: nothing is running, the count
\* is 1, and a task queued afterwards waits in the queue.
C16_Leaked ==
    /\ maxDegreeOfParalellism = 1
    /\ ~_isDisposed
    /\ Unsettled = {}
    /\ reactions = <<>>
    /\ runningPromises = 1
    /\ Len(outstandingPromises) > 0

----------------------------------------------------------------------------
\* The limiter used with factories that return a promise, some of them
\* after calling the limiter that is invoking them.
ReentrantNext ==
    \/ QueuePlain
    \/ QueueReentrant
    \/ Settle
    \/ React
    \/ Clear
    \/ Dispose

ReentrantSpec == Init /\ [][ReentrantNext]_vars

\* C17: a factory that calls queue(), clear() or dispose() on the limiter
\* that is invoking it does no harm.  Under every interleaving with such
\* factories: no task is started twice and the tasks are started in
\* submission order; no task is skipped, every task accepted before a
\* started one was started or dropped by clear()/dispose(); at most the
\* maximum number of tasks are started and not yet handled as complete; and
\* on a limiter that has not been disposed the size is the number of queued
\* tasks plus that number.
C17_ReentrantFactoriesAreSafe ==
    /\ \A i, j \in 1..Len(startOrder) :
          i < j => startOrder[i] < startOrder[j]
    /\ \A b \in Started : \A a \in Accepted :
          a < b => a \in Started \/ droppedBy[a] # "none"
    /\ Range(startOrder) \cap Range(outstandingPromises) = {}
    /\ Cardinality(InFlight) <= maxDegreeOfParalellism
    /\ runningPromises <= maxDegreeOfParalellism
    /\ ~_isDisposed =>
          /\ runningPromises = Cardinality(InFlight)
          /\ _size = Len(outstandingPromises) + Cardinality(InFlight)

\* On a limiter of one slot that is busy, the factory of task 2 queued a
\* task behind task 3 when it was invoked, and the factory of task 3, invoked
\* when task 2 completed, called clear() and dropped that task.  The limiter
\* is not disposed and task 3 is running.
C17_Witness ==
    /\ maxDegreeOfParalellism = 1
    /\ behaviour[2] = "queues"
    /\ behaviour[3] = "clears"
    /\ startOrder = <<1, 2, 3>>
    /\ \E u \in Tasks : u > 3 /\ droppedBy[u] = "clear"
    /\ ~_isDisposed
    /\ InFlight = {3}
    /\ _size = 1

----------------------------------------------------------------------------
\* C19: the limiter never fires its drained notification, whatever is
\* queued, completed, cleared or disposed, also when the count of submitted
\* and not yet completed tasks comes back to zero: the only thing that ever
\* happens to the emitter is that dispose() disposes it.
C19_DrainedNeverFires ==
    /\ [](_onDrained.fired = 0)
    /\ [][_onDrained' # _onDrained =>
            /\ _isDisposed'
            /\ _onDrained' = [_onDrained EXCEPT !.disposed = TRUE]]_vars

\* Three tasks or more were submitted to a limiter that was never disposed
\* or cleared, all were started and completed, and the size is back at zero.
C19_Witness ==
    /\ ~_isDisposed
    /\ ~_onDrained.disposed
    /\ Len(startOrder) >= 3
    /\ \A t \in Started : Settled(future[t])
    /\ \A t \in Tasks : droppedBy[t] = "none"
    /\ reactions = <<>>
    /\ outstandingPromises = <<>>
    /\ _size = 0

\* C20: once dispose() has been called the size is 0 and stays 0, whatever
\* completes afterwards: a disposed limiter stays disposed and its size is
\* 0 in every state.  The size is never negative.
C20_SizeZeroAfterDispose ==
    /\ [](_isDisposed => _size = 0)
    /\ [](_size >= 0)
    /\ [][_isDisposed => _isDisposed' /\ _size' = 0]_vars

\* Two tasks were running when dispose() was called; both have completed
\* since and their completions were handled on the disposed limiter, which
\* still counts them as running.
C20_Witness ==
    /\ _isDisposed
    /\ _size = 0
    /\ runningPromises = 2
    /\ Cardinality({t \in Started : Settled(future[t])}) >= 2
    /\ InFlight = {}
    /\ reactions = <<>>

----------------------------------------------------------------------------
\* C21: clear() on a disposed limiter throws and leaves the size, the queue
\* and the running count as they were (and every promise and future with
\* them); dispose() on a disposed limiter does not throw and changes no
\* field of the limiter.
C21_ClearThrowsDisposeIdempotent ==
    /\ [][(Clear /\ _isDisposed) =>
            /\ thrown' = DisposedError
            /\ UNCHANGED <<_size, outstandingPromises, runningPromises,
                           _isDisposed, _onDrained, promise, future,
                           reactions, startOrder, droppedBy>>]_vars
    /\ [][(Dispose /\ _isDisposed) =>
            /\ thrown' = "none"
            /\ UNCHANGED <<_size, outstandingPromises, runningPromises,
                           _isDisposed, _onDrained, promise, future,
                           reactions, startOrder, droppedBy>>]_vars

\* clear() threw on a limiter that was disposed while a task was running:
\* no queue() call was ever refused, so the error is clear()'s, and the
\* running count is still 1.
C21_Witness ==
    /\ _isDisposed
    /\ thrown = DisposedError
    /\ Refused = {}
    /\ runningPromises = 1
    /\ _size = 0

----------------------------------------------------------------------------
\* ModelSelectionEditingService: the resolve-modify-save operations
\* (doEditModelSelection, doEditModelConfiguration,
\* doEditProviderConfiguration, doCloneProviderConfiguration).  The service's
\* queue runs one operation at a time; an operation is followed through its
\* awaits.
\*
\* The content of the file (document.kind) is one of
\*   "missing"   the file does not exist,
\*   "empty"     model.getValue() is the empty string,
\*   "comment"   only comments or white space: parses without errors to
\*               undefined,
\*   "literal"   null, false or 0: parses without errors to a falsy value,
\*   "errors"    parse() reports parse errors,
\*   "invalid"   parses to a truthy value isModelSelectionSettings rejects,
\*   "settings"  parses to a value isModelSelectionSettings accepts,
\*   "bare"      the empty object the service itself writes, '{}' after a
\*               comment line.
\* An entry of models or providers is "absent", "old" (written by the user)
\* or "item" (the item an operation was called with).

Methods5 ==
    {"editModelSelection", "addModelConfiguration", "editModelConfiguration",
     "editProviderConfiguration", "cloneProviderConfiguration"}

\* The documents a user can leave in the file.  A document without a models
\* (providers) section has no model (provider) entry.
UserDocuments ==
    {d \in [kind : {"empty", "comment", "literal", "errors", "invalid", "settings"},
            valid : BOOLEAN,
            hasModels : BOOLEAN,
            hasProviders : BOOLEAN,
            models : [ModelKeys -> {"absent", "old"}],
            providers : [ProviderKeys -> {"absent", "old"}],
            dirty : BOOLEAN] :
        /\ d.valid = (d.kind = "settings")
        /\ d.kind # "settings" => ~d.hasModels /\ ~d.hasProviders
        /\ ~d.hasModels => \A k \in ModelKeys : d.models[k] = "absent"
        /\ ~d.hasProviders => \A k \in ProviderKeys : d.providers[k] = "absent"}

\* this.textFileService.isDirty(modelSelectionResource) that always answers
\* no.
isDirtyNever(d) == FALSE

\* this.textFileService.isDirty(modelSelectionResource)
isDirty(d) == d.dirty

\* applyEditsToBuffer(edit, model): the buffer has unsaved changes.
applyEditsToBuffer(d) == [d EXCEPT !.dirty = TRUE]

\* The file or buffer after getEmptyContent(EOL), or EOL + '{}' after
\* comments, was written to it: an empty object.
getEmptyContent(d) == [d EXCEPT !.kind = "bare", !.valid = FALSE]

\* updateModelConfiguration(modelKey, modelItem, textModel, add): setProperty
\* on ['models', modelKey] and the edit applied to the buffer.
updateModelConfiguration(d, modelKey) ==
    applyEditsToBuffer([d EXCEPT !.hasModels = TRUE,
                                 !.models[modelKey] = "item"])

\* updateProviderConfiguration(providerKey, providerItem, textModel, add):
\* setProperty on ['providers', providerKey] with the given entry.
updateProviderConfiguration(d, providerKey, providerItem) ==
    applyEditsToBuffer([d EXCEPT !.hasProviders = TRUE,
                                 !.providers[providerKey] = providerItem])

\* The queue starts an operation: resolveAndValidate() tests isDirty first
\* and returns a rejected promise for a dirty file.
Begin ==
    /\ operation.pc \in {"idle", "done"}
    /\ \E m \in Methods5 : \E v \in BOOLEAN :
       \E k \in (IF m \in {"editProviderConfiguration", "cloneProviderConfiguration"}
                 THEN ProviderKeys
                 ELSE IF m = "editModelSelection" THEN {"slowModel", "fastModel"}
                 ELSE ModelKeys) :
       \E n \in (IF m = "cloneProviderConfiguration" THEN ProviderKeys ELSE {"none"}) :
          operation' =
              [NoOperation EXCEPT
                  !.method = m, !.key = k, !.newKey = n,
                  !.itemValid = (v \/ m \in {"editModelSelection", "cloneProviderConfiguration"}),
                  !.before = document,
                  !.sawDirty = isDirty(document),
                  !.pc = IF isDirty(document) THEN "done" ELSE "exists",
                  !.result = IF isDirty(document) THEN "rejected" ELSE "none"]
    /\ UNCHANGED <<limiterVars, clock, editingVars, applyVars, document, probeVars>>

\* resolveModelReference(): fileService.exists answers; a file that does
\* not exist is written with the empty content; then createModelReference
\* is called.
Exists ==
    /\ operation.pc = "exists"
    /\ document' = IF document.kind = "missing"
                   THEN getEmptyContent(document)
                   ELSE document
    /\ operation' = [operation EXCEPT !.pc = "resolving"]
    /\ UNCHANGED <<limiterVars, clock, editingVars, applyVars, probeVars>>

\* createModelReference settles.  If it rejects the operation rejects
\* without a reference.  Otherwise the .then callback of resolveAndValidate
\* validates the content: it disposes the reference and rejects on parse
\* errors and on a truthy value that is not a settings object, writes an
\* empty object into an empty buffer or after content that parses to a
\* falsy value, and returns the reference.  Whether the empty object the
\* service wrote itself passes isModelSelectionSettings is not decided by
\* the sources: both answers are taken.
Resolve ==
    /\ operation.pc = "resolving"
    /\ \E created_ok \in BOOLEAN : \E bareValid \in BOOLEAN :
         LET kind == document.kind
             rejects == \/ kind \in {"errors", "invalid"}
                        \/ kind = "bare" /\ ~bareValid
             writes == kind \in {"empty", "comment", "literal"}
         IN  IF ~created_ok
             THEN /\ operation' = [operation EXCEPT !.pc = "done",
                                                    !.result = "rejected"]
                  /\ UNCHANGED document
             ELSE /\ operation' =
                        [operation EXCEPT
                            !.acquired = 1,
                            !.sawKind = IF kind = "bare" /\ ~bareValid
                                        THEN "invalid" ELSE kind,
                            !.disposed = IF rejects THEN 1 ELSE 0,
                            !.edits = IF writes THEN 1 ELSE 0,
                            !.pc = IF rejects THEN "done" ELSE "body",
                            !.result = IF rejects THEN "rejected" ELSE "none"]
                  /\ document' =
                        IF kind \in {"empty", "comment"}
                        THEN applyEditsToBuffer(getEmptyContent(document))
                        ELSE IF kind = "literal"
                        THEN applyEditsToBuffer([document EXCEPT !.kind = "errors"])
                        ELSE document
    /\ UNCHANGED <<limiterVars, clock, editingVars, applyVars, probeVars>>

\* The test of an entry that finds every key.
hasEntryAlways(entries, key) == TRUE

\* userModelSelectionConfiguration.models[modelKey] and
\* userModelSelectionConfiguration.providers[providerKey] as conditions: the
\* key has an entry.
hasEntry(entries, key) == entries[key] # "absent"

\* The statements of a doEdit... method between its two awaits, on document
\* d: what is left of the document, and how the method goes on: it calls
\* save() ("saves"), returns before it ("returns") or throws ("throws").
\* Reading .models[key] or .providers[key] of a parsed value without that
\* section throws a TypeError.
doEdit(d, op) ==
    CASE op.method = "editModelSelection" ->
            [doc |-> applyEditsToBuffer(d), edits |-> 1, goes |-> "saves"]
      [] op.method = "addModelConfiguration" ->
            IF ~op.itemValid
            THEN [doc |-> d, edits |-> 0, goes |-> "returns"]
            ELSE [doc |-> updateModelConfiguration(d, op.key), edits |-> 1,
                  goes |-> "saves"]
      [] op.method = "editModelConfiguration" ->
            IF ~op.itemValid
            THEN [doc |-> d, edits |-> 0, goes |-> "returns"]
            ELSE IF ~d.hasModels
            THEN [doc |-> d, edits |-> 0, goes |-> "throws"]
            ELSE IF hasEntry(d.models, op.key)
            THEN [doc |-> updateModelConfiguration(d, op.key), edits |-> 1,
                  goes |-> "saves"]
            ELSE [doc |-> d, edits |-> 0, goes |-> "saves"]
      [] op.method = "editProviderConfiguration" ->
            IF ~op.itemValid
            THEN [doc |-> d, edits |-> 0, goes |-> "returns"]
            ELSE IF op.key \notin providerTypeValues
            THEN [doc |-> d, edits |-> 0, goes |-> "saves"]
            ELSE IF ~d.hasProviders
            THEN [doc |-> d, edits |-> 0, goes |-> "throws"]
            ELSE IF hasEntry(d.providers, op.key)
            THEN [doc |-> updateProviderConfiguration(d, op.key, "item"),
                  edits |-> 1, goes |-> "saves"]
            ELSE [doc |-> d, edits |-> 0, goes |-> "saves"]
      [] OTHER ->
            IF op.key \notin providerTypeValues
            THEN [doc |-> d, edits |-> 0, goes |-> "saves"]
            ELSE IF ~d.hasProviders
            THEN [doc |-> d, edits |-> 0, goes |-> "throws"]
            ELSE IF hasEntry(d.providers, op.key)
            THEN [doc |-> updateProviderConfiguration(d, op.newKey, d.providers[op.key]),
                  edits |-> 1, goes |-> "saves"]
            ELSE [doc |-> d, edits |-> 0, goes |-> "saves"]

\* The operation continues after await this.resolveAndValidate() up to its
\* next await or its end.  On the text left by '{}' written after a literal,
\* what json.parse and setProperty make of it is not decided by the sources:
\* the method throws or goes on to save().
Body ==
    /\ operation.pc = "body"
    /\ \E r \in (IF operation.sawKind = "literal"
                 THEN {[doc |-> document, edits |-> 0, goes |-> "throws"],
                       [doc |-> document, edits |-> 0, goes |-> "saves"],
                       [doc |-> document, edits |-> 0,
                        goes |-> IF operation.itemValid THEN "saves" ELSE "returns"]}
                 ELSE {doEdit(document, operation)}) :
          /\ document' = r.doc
          /\ operation' =
                [operation EXCEPT
                    !.edits = @ + r.edits,
                    !.saves = IF r.goes = "saves" THEN 1 ELSE 0,
                    !.pc = IF r.goes = "saves" THEN "saving" ELSE "done",
                    !.result = CASE r.goes = "saves" -> "none"
                                 [] r.goes = "returns" -> "fulfilled"
                                 [] OTHER -> "rejected"]
    /\ UNCHANGED <<limiterVars, clock, editingVars, applyVars, probeVars>>

\* await this.save() settles: a successful save leaves the file clean; the
\* finally block disposes the reference either way.
Save ==
    /\ operation.pc = "saving"
    /\ \E saved \in BOOLEAN :
          /\ document' = [document EXCEPT !.dirty = IF saved THEN FALSE ELSE @]
          /\ operation' = [operation EXCEPT
                              !.disposed = @ + 1,
                              !.pc = "done",
                              !.result = IF saved THEN "fulfilled" ELSE "rejected"]
    /\ UNCHANGED <<limiterVars, clock, editingVars, applyVars, probeVars>>

\* The operation has settled and the queue has nothing else to run.
Idle ==
    /\ operation.pc = "done"
    /\ operation' = NoOperation
    /\ UNCHANGED <<limiterVars, clock, editingVars, applyVars, document, probeVars>>

\* While no operation is running the user changes the file in the editor,
\* saves it or deletes it.
UserEdits ==
    /\ operation.pc = "idle"
    /\ document' \in UserDocuments \cup {NoDocument}
    /\ UNCHANGED <<limiterVars, clock, editingVars, applyVars, operation, probeVars>>

DocNext ==
    \/ Idle
    \/ Begin
    \/ Exists
    \/ Resolve
    \/ Body
    \/ Save
    \/ UserEdits

DocSpec == Init /\ [][DocNext]_vars

----------------------------------------------------------------------------
\* C22: every edit operation rejects when the model selection file has
\* unsaved changes at the moment the operation starts.  Such an operation
\* settles at once as rejected without resolving the document (it acquires
\* no model reference), applies no edit to the buffer and does not save: the
\* document is left exactly as it was.
C22_DirtyFileRejects ==
    /\ [](operation.pc # "idle" /\ operation.before.dirty =>
            /\ operation.pc = "done"
            /\ operation.result = "rejected"
            /\ operation.acquired = 0
            /\ operation.edits = 0
            /\ operation.saves = 0
            /\ document = operation.before)
    /\ [][(Begin /\ document.dirty) =>
            /\ operation'.pc = "done"
            /\ operation'.result = "rejected"
            /\ document' = document]_vars

\* cloneProviderConfiguration was rejected on a file with unsaved changes
\* whose content is a valid settings object with the provider to clone.
C22_Witness ==
    /\ operation.pc = "done"
    /\ operation.method = "cloneProviderConfiguration"
    /\ operation.before.dirty
    /\ operation.result = "rejected"
    /\ document.kind = "settings"
    /\ operation.key \in providerTypeValues
    /\ document.providers[operation.key] = "old"

----------------------------------------------------------------------------
\* The contents that have parse errors or parse to something that is not a
\* valid settings object: "errors", "invalid" (a truthy value, or the empty
\* object where isModelSelectionSettings refuses it) and "literal" (null,
\* false, 0).
NotSettings == {"errors", "invalid", "literal"}

\* C23 as stated: when the document has JSON parse errors or parses to
\* something that is not a valid model-selection settings object, the edit
\* operation rejects, has released the reference it acquired, has applied no
\* edit to the buffer and has not saved.
C23_InvalidDocumentRejects ==
    operation.sawKind \in NotSettings =>
        /\ operation.pc = "done"
        /\ operation.result = "rejected"
        /\ operation.acquired = operation.disposed
        /\ operation.edits = 0
        /\ operation.saves = 0
        /\ document = operation.before

\* What holds of C23: for parse errors and for a truthy value that is not a
\* settings object.
C23_TruthyInvalidDocumentRejects ==
    operation.sawKind \in {"errors", "invalid"} =>
        /\ operation.pc = "done"
        /\ operation.result = "rejected"
        /\ operation.acquired = 1
        /\ operation.disposed = 1
        /\ operation.edits = 0
        /\ operation.saves = 0
        /\ \/ document = operation.before
           \/ operation.before.kind = "missing" /\ document.kind = "bare"

\* The document was null: the operation wrote '{}' after it, went on to
\* save() and was fulfilled.
C23_LiteralEdited ==
    /\ operation.sawKind = "literal"
    /\ operation.pc = "done"
    /\ operation.result = "fulfilled"
    /\ operation.edits = 1
    /\ operation.saves = 1
    /\ document.kind = "errors"

----------------------------------------------------------------------------
\* C24 as stated: every model reference an edit operation acquired has been
\* disposed by the time the operation's promise settles, on every path.
C24_ReferenceDisposedWhenSettled ==
    operation.pc = "done" => operation.disposed = operation.acquired

\* What holds of C24: an operation that reached save() has disposed its
\* reference when it settles, whether the save succeeded or failed, and so
\* has one whose document was refused by resolveAndValidate; no reference is
\* disposed twice.
C24_ReferenceDisposedAfterSave ==
    /\ operation.disposed <= operation.acquired
    /\ (operation.pc = "done" /\ (operation.saves = 1 \/ operation.sawKind \in {"errors", "invalid"})) =>
            operation.disposed = operation.acquired

\* editModelConfiguration was called with an item that is not a language
\* model item on a valid settings document: the operation fulfilled without
\* saving and its reference is not disposed.
C24_Leaked ==
    /\ operation.pc = "done"
    /\ operation.method = "editModelConfiguration"
    /\ ~operation.itemValid
    /\ operation.sawKind = "settings"
    /\ operation.result = "fulfilled"
    /\ operation.acquired = 1
    /\ operation.disposed = 0
    /\ operation.saves = 0

----------------------------------------------------------------------------
\* The model and provider keys whose entry differs from what it was when the
\* operation started.
ModelsChanged ==
    {k \in ModelKeys : document.models[k] # operation.before.models[k]}
ProvidersChanged ==
    {k \in ProviderKeys : document.providers[k] # operation.before.providers[k]}

\* The operation got past resolveAndValidate on a document the methods can
\* read, and called save().
ReachedSave == operation.saves = 1 /\ operation.sawKind # "literal"

\* The conditions of C25 on the entries an operation may change:
\* editModelSelection changes none; editModelConfiguration changes only the
\* entry of its key and only if that key had an entry; editProviderConfiguration
\* changes only the entry of its key and only if the key is a known provider
\* type that had an entry; cloneProviderConfiguration changes only the entry of
\* the new key, to a copy of the existing entry, and only if the existing key
\* is a known provider type that had an entry; addModelConfiguration changes
\* only the entry of its key.  When the condition holds and the operation
\* reached save(), the entry is set.
OnlyIfKeyExists ==
    LET op == operation
        b == operation.before
    IN  op.pc # "idle" =>
        /\ op.method = "editModelSelection" =>
              ModelsChanged = {} /\ ProvidersChanged = {}
        /\ op.method = "editModelConfiguration" =>
              /\ ProvidersChanged = {}
              /\ ModelsChanged \subseteq {op.key}
              /\ ModelsChanged # {} => b.models[op.key] # "absent"
              /\ (ReachedSave /\ b.models[op.key] # "absent") =>
                    document.models[op.key] = "item"
        /\ op.method = "editProviderConfiguration" =>
              /\ ModelsChanged = {}
              /\ ProvidersChanged \subseteq {op.key}
              /\ ProvidersChanged # {} =>
                    op.key \in providerTypeValues /\ b.providers[op.key] # "absent"
              /\ (ReachedSave /\ op.key \in providerTypeValues
                    /\ b.providers[op.key] # "absent") =>
                    document.providers[op.key] = "item"
        /\ op.method = "cloneProviderConfiguration" =>
              /\ ModelsChanged = {}
              /\ ProvidersChanged \subseteq {op.newKey}
              /\ ProvidersChanged # {} =>
                    op.key \in providerTypeValues /\ b.providers[op.key] # "absent"
              /\ (ReachedSave /\ op.key \in providerTypeValues
                    /\ b.providers[op.key] # "absent") =>
                    document.providers[op.newKey] = b.providers[op.key]
        /\ op.method = "addModelConfiguration" =>
              /\ ProvidersChanged = {}
              /\ ModelsChanged \subseteq {op.key}

\* C25 as stated: the conditions above, and addModelConfiguration sets the
\* entry whether or not the key exists: an addModelConfiguration that has
\* fulfilled has set the entry of its key.
C25_EntriesChangeOnlyIfKeyExists ==
    /\ OnlyIfKeyExists
    /\ (/\ operation.method = "addModelConfiguration"
        /\ operation.pc = "done"
        /\ operation.result = "fulfilled"
        /\ operation.sawKind # "literal") =>
            document.models[operation.key] = "item"

\* C25, amended: addModelConfiguration sets the entry, whether or not the
\* key exists, when it is called with a language model item; called with
\* anything else it changes nothing.
C25_EntriesChangeOnlyIfKeyExistsAndItemValid ==
    /\ OnlyIfKeyExists
    /\ (/\ operation.method = "addModelConfiguration"
        /\ operation.itemValid
        /\ ReachedSave) =>
            document.models[operation.key] = "item"
    /\ (operation.pc # "idle" /\ ~operation.itemValid) =>
            ModelsChanged = {} /\ ProvidersChanged = {}

\* cloneProviderConfiguration has copied an existing provider entry to a key
\* that had none and saved it; the document has a model entry too.
C25_Witness ==
    /\ operation.pc = "done"
    /\ operation.method = "cloneProviderConfiguration"
    /\ operation.result = "fulfilled"
    /\ operation.before.providers[operation.newKey] = "absent"
    /\ document.providers[operation.newKey] = "old"
    /\ ProvidersChanged = {operation.newKey}
    /\ \E k \in ModelKeys : document.models[k] # "absent"

----------------------------------------------------------------------------
\* AideProbeViewModel: the handlers of the model's onDidChange and
\* onDidChangeTailing events.  A breakdown item is written as the URI it
\* refers to.

\* The model fires onDidChange at most this many times.
MaxChanges == 3

\* A response has at most this many breakdowns.
MaxBreakdowns == 2

\* The breakdown lists of a response.
BreakdownLists == UNION {[1..n -> URIs] : n \in 0..MaxBreakdowns}

\* this._references: the map is created empty and nothing ever adds an entry
\* to it.
_references == {}

NoItem == "none"

\* The events of the view model, with the breakdown an
\* onChangeActiveBreakdown carries.
ChangeGoToDefinition == [event |-> "onChangeGoToDefinition", item |-> NoItem]
ChangeActiveBreakdown(item) == [event |-> "onChangeActiveBreakdown", item |-> item]
DidChange == [event |-> "onDidChange", item |-> NoItem]

\* The onDidChange handler that tells the active breakdown whether or not
\* the model is tailing.
onDidChangeNotTailing(m, list) ==
    (IF m.hasResponse THEN <<ChangeGoToDefinition>> ELSE <<>>)
    \o (IF m.hasResponse /\ Len(list) > 0
        THEN <<ChangeActiveBreakdown(list[Len(list)])>>
        ELSE <<>>)
    \o <<DidChange>>

\* The onDidChange handler after its await, with this._breakdowns = list:
\* the events it fires, in order, for the model as it is now.
onDidChange(m, list) ==
    (IF m.hasResponse THEN <<ChangeGoToDefinition>> ELSE <<>>)
    \o (IF m.hasResponse /\ m.isTailing /\ Len(list) > 0
        THEN <<ChangeActiveBreakdown(list[Len(list)])>>
        ELSE <<>>)
    \o <<DidChange>>

\* The onDidChangeTailing handler: the events it fires.
onDidChangeTailing(isTailing, list) ==
    IF isTailing /\ Len(list) > 0
    THEN <<ChangeActiveBreakdown(list[Len(list)])>>
    ELSE <<>>

\* The number of items of list that refer to URI u.
Count(list, u) == Cardinality({i \in 1..Len(list) : list[i] = u})

\* The model changes and fires onDidChange.  The handler maps the
\* breakdowns the response has now, looks each URI up in this._references
\* and calls createModelReference for the ones it does not find, then waits
\* for all of them.
ModelChanges ==
    /\ _model.changes < MaxChanges
    /\ \E r \in BOOLEAN : \E list \in BreakdownLists :
          /\ r \/ ~_model.hasResponse
          /\ ~r => list = <<>>
          /\ _model' = [_model EXCEPT !.hasResponse = r,
                                      !.breakdowns = list,
                                      !.changes = @ + 1]
          /\ handlers' = Append(handlers, list)
          /\ created' = [u \in URIs |->
                           created[u] + (IF u \in _references THEN 0 ELSE Count(list, u))]
    /\ fired' = <<>>
    /\ UNCHANGED <<limiterVars, clock, editingVars, applyVars, docVars, _breakdowns>>

\* The handlers waiting at their await that can be the next to continue.
\* The references of a handler arrive at any time; a handler with nothing to
\* wait for continues before every handler started after it.
Ready ==
    {i \in 1..Len(handlers) : \A j \in 1..(i - 1) : handlers[j] # <<>>}

\* handlers without its i-th element.
Without(i) ==
    SubSeq(handlers, 1, i - 1) \o SubSeq(handlers, i + 1, Len(handlers))

\* All model references of a waiting handler have arrived: it replaces
\* this._breakdowns by the view items of its own breakdowns and fires its
\* events.
HandlerCompletes ==
    /\ \E i \in Ready :
          /\ _breakdowns' = handlers[i]
          /\ fired' = onDidChange(_model, handlers[i])
          /\ handlers' = Without(i)
    /\ UNCHANGED <<limiterVars, clock, editingVars, applyVars, docVars, _model, created>>

\* createModelReference rejects for a waiting handler: Promise.all rejects
\* and the handler ends without replacing the list or firing an event.
HandlerFails ==
    /\ \E i \in 1..Len(handlers) :
          /\ handlers[i] # <<>>
          /\ handlers' = Without(i)
    /\ fired' = <<>>
    /\ UNCHANGED <<limiterVars, clock, editingVars, applyVars, docVars, _model,
                   _breakdowns, created>>

\* The model fires onDidChangeTailing(isTailing).
TailingChanges ==
    /\ \E isTailing \in BOOLEAN :
          /\ _model' = [_model EXCEPT !.isTailing = isTailing]
          /\ fired' = onDidChangeTailing(isTailing, _breakdowns)
    /\ UNCHANGED <<limiterVars, clock, editingVars, applyVars, docVars,
                   _breakdowns, handlers, created>>

\* The view model when every model reference is created.
ProbeNext ==
    \/ ModelChanges
    \/ HandlerCompletes
    \/ TailingChanges

ProbeSpec == Init /\ [][ProbeNext]_vars

\* The view model when creating a model reference can fail.
ProbeFailNext ==
    \/ ModelChanges
    \/ HandlerCompletes
    \/ HandlerFails
    \/ TailingChanges

ProbeFailSpec == Init /\ [][ProbeFailNext]_vars

\* The breakdowns of the model's latest response.
LatestBreakdowns == IF _model.hasResponse THEN _model.breakdowns ELSE <<>>

\* C26 as stated: once all onDidChange handlers have finished, the view
\* model's breakdowns are those of the model's latest response, in whatever
\* order the handlers completed.
C26_BreakdownsFollowLatestResponse ==
    (handlers = <<>> /\ _model.changes > 0) => _breakdowns = LatestBreakdowns

\* Two changes were handled and no handler is waiting; the list shows the
\* one breakdown of the first response while the latest response has two.
C26_Stale ==
    /\ handlers = <<>>
    /\ _model.changes = 2
    /\ _model.breakdowns = <<"a.ts", "b.ts">>
    /\ _breakdowns = <<"a.ts">>

\* C27: a handled model change fires onChangeGoToDefinition only if the
\* model has a response, then onChangeActiveBreakdown with the last item of
\* the replaced list only if the model has a response, is tailing and the
\* list is not empty, then onDidChange once, in this order and nothing else;
\* onDidChangeTailing(true) fires onChangeActiveBreakdown with the last
\* breakdown only when the list is not empty, onDidChangeTailing(false)
\* fires nothing, and so do a model change that is still waiting and a
\* handler whose model reference fails.
C27_EventsFireInOrder ==
    /\ [][HandlerCompletes =>
            LET last == _breakdowns'[Len(_breakdowns')]
                goTo == _model.hasResponse
                active == _model.hasResponse /\ _model.isTailing /\ _breakdowns' # <<>>
            IN  /\ _breakdowns' \in {handlers[i] : i \in 1..Len(handlers)}
                /\ fired'[Len(fired')] = DidChange
                /\ Cardinality({k \in 1..Len(fired') : fired'[k] = DidChange}) = 1
                /\ Len(fired') = 1 + (IF goTo THEN 1 ELSE 0) + (IF active THEN 1 ELSE 0)
                /\ goTo => fired'[1] = ChangeGoToDefinition
                /\ active => fired'[2] = ChangeActiveBreakdown(last)]_vars
    /\ [][TailingChanges =>
            IF _model'.isTailing /\ _breakdowns # <<>>
            THEN fired' = <<ChangeActiveBreakdown(_breakdowns[Len(_breakdowns)])>>
            ELSE fired' = <<>>]_vars
    /\ [][(ModelChanges \/ HandlerFails) => fired' = <<>> /\ UNCHANGED _breakdowns]_vars

\* A handler has just replaced the list by two breakdowns while the model
\* has a response and is tailing: it fired the three events, the active
\* breakdown being the second item.
C27_Witness ==
    /\ _model.hasResponse
    /\ _model.isTailing
    /\ _breakdowns = <<"a.ts", "b.ts">>
    /\ fired = <<ChangeGoToDefinition, ChangeActiveBreakdown("b.ts"), DidChange>>

\* C28 as stated: over any sequence of model change events a model
\* reference is created at most once for each breakdown URI.
C28_ReferenceCreatedOncePerURI ==
    \A u \in URIs : created[u] <= 1

\* Two changes whose responses each have the one breakdown of a.ts were
\* handled, and two model references of a.ts were created.
C28_CreatedAgain ==
    /\ _model.changes = 2
    /\ _model.breakdowns = <<"a.ts">>
    /\ _breakdowns = <<"a.ts">>
    /\ handlers = <<>>
    /\ created["a.ts"] = 2
    /\ created["b.ts"] = 0

====
